---- MODULE Spec2Model ----
(***************************************************************************)
(* A model of the two Sudoku solvers of this repository:                   *)
(*   functional/  (immutable tuple-of-tuples boards, copy on write) and    *)
(*   imperative/  (mutable list-of-lists boards, mutated in place).        *)
(* Operators prefixed fun_ model functional/*.py, operators prefixed imp_  *)
(* model imperative/*.py.  Boards are indexed from 0 as in the source.     *)
(* Python tuples and lists are sequences; Optional values are sequences    *)
(* of length 0 (None) or 1.                                                *)
(***************************************************************************)
EXTENDS Integers, Sequences, FiniteSets, TLC

\* ------------------------------------------------------------------------
\* Program constants
\* ------------------------------------------------------------------------
\* range(9): side of the grid
N == 9
\* (r // 3) * 3: side of a box
BOXN == 3

Idx == 0 .. (N - 1)
\* tuple(range(1, 10))
\* range(1, 11) for range(1, 10)
Digits_to_ten == [i \in 1 .. N + 1 |-> i]

Digits == [i \in 1 .. N |-> i]

None == << >>
Some(x) == << x >>
IsNone(x) == x = << >>
Val(x) == x[1]

Range(s) == { s[i] : i \in DOMAIN s }

\* a Python list of lists / tuple of tuples given row by row
FromRows(rows) == [r \in Idx |-> [c \in Idx |-> rows[r + 1][c + 1]]]

\* the row and the column of the k-th cell (k = 0 .. 80) of a row-major scan
RowOf(k) == k \div N
ColOf(k) == k % N

\* ------------------------------------------------------------------------
\* functional/utils_functional.py
\* ------------------------------------------------------------------------
to_immutable(board) == [r \in Idx |-> [c \in Idx |-> board[r][c]]]

from_immutable(board) == [r \in Idx |-> [c \in Idx |-> board[r][c]]]

fun_row_values(board, r) ==
    SelectSeq([i \in 1 .. N |-> board[r][i - 1]], LAMBDA v : v # 0)

fun_col_values(board, c) ==
    SelectSeq([i \in 1 .. N |-> board[i - 1][c]], LAMBDA v : v # 0)

RECURSIVE fun_collect_rows(_, _, _, _)
fun_collect_rows(board, br, bc, row_idx) ==
    IF row_idx >= br + BOXN THEN << >>
    ELSE SelectSeq([j \in 1 .. BOXN |-> board[row_idx][bc + j - 1]],
                   LAMBDA v : v # 0)
         \o fun_collect_rows(board, br, bc, row_idx + 1)

fun_box_values(board, r, c) ==
    fun_collect_rows(board, (r \div BOXN) * BOXN, (c \div BOXN) * BOXN,
                     (r \div BOXN) * BOXN)

\* candidates_for that leaves the box of the cell out of `used`
fun_candidates_for_no_box(board, r, c) ==
    IF board[r][c] # 0 THEN << board[r][c] >>
    ELSE LET used == Range(fun_row_values(board, r))
                     \cup Range(fun_col_values(board, c))
         IN  SelectSeq(Digits, LAMBDA x : x \notin used)

fun_candidates_for(board, r, c) ==
    IF board[r][c] # 0 THEN << board[r][c] >>
    ELSE LET used == Range(fun_row_values(board, r))
                     \cup Range(fun_col_values(board, c))
                     \cup Range(fun_box_values(board, r, c))
         IN  SelectSeq(Digits, LAMBDA x : x \notin used)

fun_all_candidates(board) ==
    [r \in Idx |-> [c \in Idx |-> fun_candidates_for(board, r, c)]]

fun_is_solved(board) == \A r \in Idx : \A c \in Idx : board[r][c] # 0

RECURSIVE has_dupe_rec(_, _)
has_dupe_rec(seq, seen) ==
    IF seq = << >> THEN FALSE
    ELSE IF Head(seq) \in Range(seen) THEN TRUE
    ELSE has_dupe_rec(Tail(seq), Append(seen, Head(seq)))

\* has_duplicates without its filter of the zeros
has_duplicates_zeros(values) == has_dupe_rec(values, << >>)

has_duplicates(values) ==
    has_dupe_rec(SelectSeq(values, LAMBDA v : v # 0), << >>)

fun_has_conflict(board) ==
    \/ \E idx \in Idx : has_duplicates([i \in 1 .. N |-> board[idx][i - 1]])
    \/ \E idx \in Idx : has_duplicates([i \in 1 .. N |-> board[i - 1][idx]])
    \/ \E index \in Idx :
         LET br == (index \div BOXN) * BOXN
             bc == (index % BOXN) * BOXN
         IN  has_duplicates([k \in 1 .. N |->
                 board[br + ((k - 1) \div BOXN)][bc + ((k - 1) % BOXN)]])

\* cell_has_no_candidates that looks at the first row only
fun_cell_has_no_candidates_row0(cands_board) ==
    \E c \in Idx : Len(cands_board[0][c]) = 0

fun_cell_has_no_candidates(cands_board) ==
    \E r \in Idx : \E c \in Idx : Len(cands_board[r][c]) = 0

\* ------------------------------------------------------------------------
\* functional/functional_solver.py
\* ------------------------------------------------------------------------
\* set_cell whose build_row forgets `if col_idx == c`: the whole row r
\* becomes val
fun_set_cell_whole_row(board, r, c, val) ==
    [row_idx \in Idx |->
        IF row_idx # r THEN board[row_idx]
        ELSE [col_idx \in Idx |-> val]]

\* set_cell that returns the board as it is
fun_set_cell_same(board, r, c, val) == board

fun_set_cell(board, r, c, val) ==
    [row_idx \in Idx |->
        IF row_idx # r THEN board[row_idx]
        ELSE [col_idx \in Idx |-> IF col_idx = c THEN val
                                  ELSE board[row_idx][col_idx]]]

\* all_cells = [(r, c) for r in range(9) for c in range(9)]
AllCells == [k \in 1 .. N * N |-> << RowOf(k - 1), ColOf(k - 1) >>]

\* find_singletons without its test that the cell is empty
find_singletons_any(b, cands) ==
    LET singleton_cells ==
            SelectSeq(AllCells, LAMBDA rc : Len(cands[rc[1]][rc[2]]) = 1)
    IN  [i \in DOMAIN singleton_cells |->
            << singleton_cells[i][1], singleton_cells[i][2],
               cands[singleton_cells[i][1]][singleton_cells[i][2]][1] >>]

\* propagate.find_singletons: (row, col, value) of every empty cell with
\* exactly one candidate, in row-major order
find_singletons(b, cands) ==
    LET singleton_cells ==
            SelectSeq(AllCells,
                LAMBDA rc : b[rc[1]][rc[2]] = 0 /\ Len(cands[rc[1]][rc[2]]) = 1)
    IN  [i \in DOMAIN singleton_cells |->
            << singleton_cells[i][1], singleton_cells[i][2],
               cands[singleton_cells[i][1]][singleton_cells[i][2]][1] >>]

\* apply_singles that drops the board custom_reduce built and returns b
apply_singles_discard(b, singles) == b

\* propagate.apply_singles: custom_reduce of set_cell over the singletons,
\* from the board b
RECURSIVE apply_singles(_, _)
apply_singles(b, singles) ==
    IF singles = << >> THEN b
    ELSE apply_singles(fun_set_cell(b, Head(singles)[1], Head(singles)[2],
                                    Head(singles)[3]),
                       Tail(singles))

\* min_candidates with <= for <: of the cells that tie, the last one wins
min_candidates_le(acc, cell) ==
    IF Len(cell[3]) = 0 THEN None
    ELSE IF IsNone(acc) \/ Len(cell[3]) <= Len(Val(acc)[3]) THEN Some(cell)
    ELSE acc

\* choose_mrv_cell.min_candidates: the step of the fold
min_candidates(acc, cell) ==
    IF Len(cell[3]) = 0 THEN None
    ELSE IF IsNone(acc) \/ Len(cell[3]) < Len(Val(acc)[3]) THEN Some(cell)
    ELSE acc

\* propagate: loop(board), as a value; None, or Some of the board at the
\* fixed point
RECURSIVE fun_propagate(_)
fun_propagate(b) ==
    LET cands == fun_all_candidates(b)
        singles == find_singletons(b, cands)
    IN  IF fun_cell_has_no_candidates(cands) THEN None
        ELSE IF singles = << >> THEN Some(b)
        ELSE fun_propagate(apply_singles(b, singles))

\* all_cells: (r, c, cands[r][c]) of every empty cell, row-major
fun_all_cells(board, cands) ==
    LET empty == SelectSeq(AllCells, LAMBDA rc : board[rc[1]][rc[2]] = 0)
    IN  [i \in DOMAIN empty |->
            << empty[i][1], empty[i][2], cands[empty[i][1]][empty[i][2]] >>]

\* custom_reduce(min_candidates, items, acc)
RECURSIVE fun_reduce_min(_, _)
fun_reduce_min(items, acc) ==
    IF items = << >> THEN acc
    ELSE IF IsNone(min_candidates(acc, Head(items)))
         THEN fun_reduce_min(Tail(items), None)
         ELSE fun_reduce_min(Tail(items), min_candidates(acc, Head(items)))

fun_choose_mrv_cell(board) ==
    LET all_cells == fun_all_cells(board, fun_all_candidates(board))
    IN  IF all_cells = << >> THEN None
        ELSE fun_reduce_min(all_cells, None)

\* ------------------------------------------------------------------------
\* imperative/utils_imperative.py
\* ------------------------------------------------------------------------
copy_board(board) == [r \in Idx |-> [c \in Idx |-> board[r][c]]]

imp_row_values(board, r) ==
    SelectSeq([i \in 1 .. N |-> board[r][i - 1]], LAMBDA v : v # 0)

imp_col_values(board, c) ==
    SelectSeq([i \in 1 .. N |-> board[i - 1][c]], LAMBDA v : v # 0)

imp_box_values(board, r, c) ==
    LET br == (r \div BOXN) * BOXN
        bc == (c \div BOXN) * BOXN
    IN  SelectSeq([k \in 1 .. BOXN * BOXN |->
                     board[br + ((k - 1) \div BOXN)][bc + ((k - 1) % BOXN)]],
                  LAMBDA v : v # 0)

\* for x in xs: if x not in used: used.append(x)
RECURSIVE add_unused(_, _)
add_unused(used, xs) ==
    IF xs = << >> THEN used
    ELSE IF Head(xs) \in Range(used) THEN add_unused(used, Tail(xs))
    ELSE add_unused(Append(used, Head(xs)), Tail(xs))

\* candidates_for that runs through the digits from 9 down to 1
imp_candidates_for_desc(board, r, c) ==
    IF board[r][c] # 0 THEN << board[r][c] >>
    ELSE LET u1 == add_unused(<< >>, imp_row_values(board, r))
             u2 == add_unused(u1, imp_col_values(board, c))
             used == add_unused(u2, imp_box_values(board, r, c))
         IN  SelectSeq([i \in 1 .. N |-> N + 1 - i], LAMBDA x : x \notin Range(used))

imp_candidates_for(board, r, c) ==
    IF board[r][c] # 0 THEN << board[r][c] >>
    ELSE LET u1 == add_unused(<< >>, imp_row_values(board, r))
             u2 == add_unused(u1, imp_col_values(board, c))
             used == add_unused(u2, imp_box_values(board, r, c))
         IN  SelectSeq(Digits, LAMBDA x : x \notin Range(used))

imp_all_candidates(board) ==
    [r \in Idx |-> [c \in Idx |-> imp_candidates_for(board, r, c)]]

imp_is_solved(board) == ~ \E r \in Idx : \E c \in Idx : board[r][c] = 0

\* has_conflict.dup: len(xs2) != len(set(xs2)) over the non-zero values
dup(xs) ==
    LET xs2 == SelectSeq(xs, LAMBDA x : x # 0)
    IN  Len(xs2) # Cardinality(Range(xs2))

imp_has_conflict(board) ==
    \/ \E r \in Idx : dup([i \in 1 .. N |-> board[r][i - 1]])
    \/ \E c \in Idx : dup([i \in 1 .. N |-> board[i - 1][c]])
    \/ \E br \in {0, 3, 6} : \E bc \in {0, 3, 6} :
         LET vals == imp_box_values(board, br, bc)
         IN  Len(vals) # Cardinality(Range(vals))

\* cell_has_no_candidates that looks at the first row only
imp_cell_has_no_candidates_row0(cands_board) ==
    \E c \in Idx : Len(cands_board[0][c]) = 0

imp_cell_has_no_candidates(cands_board) ==
    \E r \in Idx : \E c \in Idx : Len(cands_board[r][c]) = 0

\* ------------------------------------------------------------------------
\* imperative/solver_imperative.py
\* ------------------------------------------------------------------------
\* board[r][c] = val on a list of lists
imp_set_cell(board, r, c, val) == [board EXCEPT ![r][c] = val]

\* propagate.find_single collected by collect_from_cells, row-major
imp_singles(board, cands) ==
    LET cells == SelectSeq(AllCells,
                    LAMBDA rc : board[rc[1]][rc[2]] = 0
                                /\ Len(cands[rc[1]][rc[2]]) = 1)
    IN  [i \in DOMAIN cells |->
            << cells[i][1], cells[i][2], cands[cells[i][1]][cells[i][2]][1] >>]

\* for r, c, v in singles: set_cell(board, r, c, v)
RECURSIVE imp_commit(_, _)
imp_commit(board, singles) ==
    IF singles = << >> THEN board
    ELSE imp_commit(imp_set_cell(board, Head(singles)[1], Head(singles)[2],
                                 Head(singles)[3]),
                    Tail(singles))

\* propagate on a board object whose cells are `board`, as a value: None, or
\* Some of the cells of that object when the while loop returns it
RECURSIVE imp_propagate(_)
imp_propagate(board) ==
    LET cands == imp_all_candidates(board)
        singles == imp_singles(board, cands)
    IN  IF imp_cell_has_no_candidates(cands) THEN None
        ELSE IF singles = << >> THEN Some(board)
        ELSE imp_propagate(imp_commit(board, singles))

\* the inner loop of choose_mrv_cell with <= for <: of the cells that tie,
\* the last one scanned becomes best
RECURSIVE imp_mrv_cols_le(_, _, _, _, _)
imp_mrv_cols_le(board, cands, r, c, st) ==
    IF c = N \/ st[1] THEN st
    ELSE LET cand_list == cands[r][c]
             length == Len(cand_list)
             best == st[2]
         IN  IF board[r][c] # 0 THEN imp_mrv_cols_le(board, cands, r, c + 1, st)
             ELSE IF length = 0 THEN << TRUE, None >>
             ELSE IF length = 1 THEN << TRUE, Some(<< r, c, cand_list >>) >>
             ELSE IF IsNone(best) \/ length <= Len(Val(best)[3])
                  THEN imp_mrv_cols_le(board, cands, r, c + 1,
                                       << FALSE, Some(<< r, c, cand_list >>) >>)
             ELSE imp_mrv_cols_le(board, cands, r, c + 1, st)

\* choose_mrv_cell: the inner loop, for c in range(9), from column c on.
\* st is << returned, value >>: whether a return statement has run and what
\* it returned, else the value of best.
RECURSIVE imp_mrv_cols(_, _, _, _, _)
imp_mrv_cols(board, cands, r, c, st) ==
    IF c = N \/ st[1] THEN st
    ELSE LET cand_list == cands[r][c]
             length == Len(cand_list)
             best == st[2]
         IN  IF board[r][c] # 0 THEN imp_mrv_cols(board, cands, r, c + 1, st)
             ELSE IF length = 0 THEN << TRUE, None >>
             ELSE IF length = 1 THEN << TRUE, Some(<< r, c, cand_list >>) >>
             ELSE IF IsNone(best) \/ length < Len(Val(best)[3])
                  THEN imp_mrv_cols(board, cands, r, c + 1,
                                    << FALSE, Some(<< r, c, cand_list >>) >>)
             ELSE imp_mrv_cols(board, cands, r, c + 1, st)

\* choose_mrv_cell: the outer loop, for r in range(9), from row r on
RECURSIVE imp_mrv_rows(_, _, _, _)
imp_mrv_rows(board, cands, r, st) ==
    IF r = N \/ st[1] THEN st
    ELSE imp_mrv_rows(board, cands, r + 1, imp_mrv_cols(board, cands, r, 0, st))

imp_choose_mrv_cell(board) ==
    imp_mrv_rows(board, imp_all_candidates(board), 0, << FALSE, None >>)[2]

\* ------------------------------------------------------------------------
\* Bounds of the model
\* ------------------------------------------------------------------------
\* calls of solve the caller makes in one session
MaxCalls == 2
\* the largest max_depth the caller gives create_backtracking_solver
MaxDepth == 2
\* the largest value the caller writes into a cell (10 and up are out of range)
MaxVal == 10

\* ------------------------------------------------------------------------
\* Boards the caller passes
\* ------------------------------------------------------------------------
\* main.py: puzzle
puzzle ==
    FromRows(<< << 5, 3, 0, 0, 7, 0, 0, 0, 0 >>,
                << 6, 0, 0, 1, 9, 5, 0, 0, 0 >>,
                << 0, 9, 8, 0, 0, 0, 0, 6, 0 >>,
                << 8, 0, 0, 0, 6, 0, 0, 0, 3 >>,
                << 4, 0, 0, 8, 0, 3, 0, 0, 1 >>,
                << 7, 0, 0, 0, 2, 0, 0, 0, 6 >>,
                << 0, 6, 0, 0, 0, 0, 2, 8, 0 >>,
                << 0, 0, 0, 4, 1, 9, 0, 0, 5 >>,
                << 0, 0, 0, 0, 8, 0, 0, 7, 9 >> >>)

\* main.py: hardpuzzle
hardpuzzle ==
    FromRows(<< << 8, 0, 0, 0, 0, 0, 0, 0, 0 >>,
                << 0, 0, 3, 6, 0, 0, 0, 0, 0 >>,
                << 0, 7, 0, 0, 9, 0, 2, 0, 0 >>,
                << 0, 5, 0, 0, 0, 7, 0, 0, 0 >>,
                << 0, 0, 0, 0, 4, 5, 7, 0, 0 >>,
                << 0, 0, 0, 1, 0, 0, 0, 3, 0 >>,
                << 0, 0, 1, 0, 0, 0, 0, 6, 8 >>,
                << 0, 0, 8, 5, 0, 0, 0, 1, 0 >>,
                << 0, 9, 0, 0, 0, 0, 4, 0, 0 >> >>)

\* the all-zero board
ZeroBoard == [r \in Idx |-> [c \in Idx |-> 0]]

\* A board without duplicates in which the empty cells (0,4) and (0,8) of
\* row 0 both have 9 as their only candidate, and the empty cells (1,1) and
\* (1,3) of row 1 both have 8 as their only candidate.
ClashBoard ==
    FromRows(<< << 6, 3, 4, 2, 0, 5, 7, 1, 0 >>,
                << 2, 0, 1, 0, 6, 7, 3, 4, 5 >>,
                << 7, 9, 5, 3, 4, 1, 8, 6, 2 >>,
                << 5, 7, 2, 1, 3, 4, 9, 8, 6 >>,
                << 4, 1, 9, 5, 8, 6, 2, 3, 7 >>,
                << 3, 6, 8, 7, 2, 9, 4, 5, 1 >>,
                << 9, 2, 3, 6, 5, 8, 1, 7, 4 >>,
                << 1, 4, 6, 9, 7, 3, 5, 2, 8 >>,
                << 8, 5, 7, 4, 1, 2, 6, 9, 3 >> >>)

\* the cells the caller may overwrite before calling solve
EditCells == { << 0, 0 >>, << 0, 4 >>, << 1, 1 >> }
EditVals == -1 .. MaxVal

Edit(b, rc, v) == [b EXCEPT ![rc[1]][rc[2]] = v]

Inputs ==
    { puzzle, hardpuzzle, ZeroBoard, ClashBoard }
    \cup { Edit(b, rc, v) : b \in { puzzle, ClashBoard },
                            rc \in EditCells, v \in EditVals }

\* ------------------------------------------------------------------------
\* What a Sudoku solution is (the yardstick of the properties, not code)
\* ------------------------------------------------------------------------
InRange(b) == \A r \in Idx : \A c \in Idx : b[r][c] \in 0 .. N

\* the cells of each row, each column and each box
Units ==
    { { << r, c >> : c \in Idx } : r \in Idx }
    \cup { { << r, c >> : r \in Idx } : c \in Idx }
    \cup { { << br * BOXN + i, bc * BOXN + j >> :
               i \in 0 .. (BOXN - 1), j \in 0 .. (BOXN - 1) } :
           br \in 0 .. (BOXN - 1), bc \in 0 .. (BOXN - 1) }

\* two different cells of one row, column or box hold the same non-zero value
Duplicate(b) ==
    \E u \in Units : \E x \in u : \E y \in u :
        /\ x # y
        /\ b[x[1]][x[2]] # 0
        /\ b[x[1]][x[2]] = b[y[1]][y[2]]

Full(b) == \A r \in Idx : \A c \in Idx : b[r][c] # 0

Extends(s, b) == \A r \in Idx : \A c \in Idx : b[r][c] # 0 => s[r][c] = b[r][c]

ValidSolution(s) == InRange(s) /\ Full(s) /\ ~ Duplicate(s)

\* the digits that may go into the empty cell (r, c) without a duplicate
Legal(b, r, c) ==
    (1 .. N) \ ({ b[r][k] : k \in Idx } \cup { b[k][c] : k \in Idx }
                \cup { b[(r \div BOXN) * BOXN + i][(c \div BOXN) * BOXN + j] :
                         i \in 0 .. (BOXN - 1), j \in 0 .. (BOXN - 1) })

EmptyCells(b) == { rc \in Idx \X Idx : b[rc[1]][rc[2]] = 0 }

\* exhaustive search for a completion, most constrained cell first
RECURSIVE Fill(_)
Fill(b) ==
    LET empty == EmptyCells(b)
        cnt == [rc \in empty |-> Cardinality(Legal(b, rc[1], rc[2]))]
    IN  IF empty = {} THEN TRUE
        ELSE LET rc == CHOOSE x \in empty : \A y \in empty : cnt[x] <= cnt[y]
             IN  \E d \in Legal(b, rc[1], rc[2]) : Fill(Edit(b, rc, d))

\* the completion of hardpuzzle, which the exhaustive search below is too
\* slow to find; ValidSolution and Extends check it wherever it is used
HardSolution ==
    FromRows(<< << 8, 1, 2, 7, 5, 3, 6, 4, 9 >>,
                << 9, 4, 3, 6, 8, 2, 1, 7, 5 >>,
                << 6, 7, 5, 4, 9, 1, 2, 8, 3 >>,
                << 1, 5, 4, 2, 3, 7, 8, 9, 6 >>,
                << 3, 6, 9, 8, 4, 5, 7, 2, 1 >>,
                << 2, 8, 7, 1, 6, 9, 5, 3, 4 >>,
                << 5, 2, 1, 9, 7, 4, 3, 6, 8 >>,
                << 4, 3, 8, 5, 2, 6, 9, 1, 7 >>,
                << 7, 9, 6, 3, 1, 8, 4, 5, 2 >> >>)

KnownSolutions == { HardSolution }

\* b has a conflict-free completion: a listed solution extends it, or the
\* exhaustive search finds one
Completable(b) ==
    /\ InRange(b)
    /\ ~ Duplicate(b)
    /\ \/ \E s \in KnownSolutions : ValidSolution(s) /\ Extends(s, b)
       \/ Fill(b)

\* ------------------------------------------------------------------------
\* State
\* ------------------------------------------------------------------------
VARIABLES
    input,      \* the board the caller starts from, as drawn
    solvable,   \* whether that board has a conflict-free completion
    heap,       \* the list-of-lists objects alive; heap[1] is the caller's
                \* board, heap[2] (when a call passes an earlier result) its copy
    pc,         \* "idle", or the solve that is running: "fun", "imp"
    arg,        \* the board passed to the running call: its heap id and
                \* its cells when the call was made
    fstack,     \* frames of functional search, innermost last
    istack,     \* frames of imperative search, innermost last
    ret,        \* what the search that returned last returned
    stats,      \* what the running call has done so far
    lastw,      \* the cells written by the last step: << r, c, old, new >>
    hist,       \* the calls that have returned, oldest first
    max_depth,  \* of the solver the caller got from create_backtracking_solver:
                \* None or Some(n); None when the caller calls solve itself
    depth_counter   \* depth_counter[0] of that solver

vars ==
    << input, solvable, heap, pc, arg, fstack, istack, ret, stats, lastw, hist,
       max_depth, depth_counter >>

NoStats == [searches |-> 0, passes |-> 0, selects |-> 0, branches |-> 0]

Bump(st, f) == [st EXCEPT ![f] = @ + 1]

Top(stack) == stack[Len(stack)]
Pop(stack) == SubSeq(stack, 1, Len(stack) - 1)
SetTop(stack, fr) == [stack EXCEPT ![Len(stack)] = fr]

\* The record of a call whose negative result is thrown: `raise` where solve
\* has `return None`
Done_raising(impl, a, after, out, st) ==
    [impl |-> impl, arg |-> a, after |-> after, out |-> out,
     raised |-> IsNone(out), stats |-> st]

\* The record of a call that returned: the board it was given, that board
\* after the call, what came back (None or a board; no solve has a raise
\* statement), and what the call did.
Done(impl, a, after, out, st) ==
    [impl |-> impl, arg |-> a, after |-> after, out |-> out,
     raised |-> FALSE, stats |-> st]

Init ==
    /\ input \in Inputs
    /\ solvable = Completable(input)
    /\ heap = << input >>
    /\ pc = "idle"
    /\ arg = [id |-> 1, board |-> input]
    /\ fstack = << >>
    /\ istack = << >>
    /\ ret = None
    /\ stats = NoStats
    /\ lastw = << >>
    /\ hist = << >>
    /\ max_depth = None
    /\ depth_counter = 0

\* The boards the caller can pass: its own board (0), or the board an earlier
\* call k returned.
Sources == { 0 } \cup { k \in DOMAIN hist : ~ IsNone(hist[k].out) }

\* the caller's objects when it passes source src
CallerHeap(src) ==
    IF src = 0 THEN << heap[1] >> ELSE << heap[1], Val(hist[src].out) >>
ArgId(src) == IF src = 0 THEN 1 ELSE 2

\* the << r, c, old, new >> of the set_cell calls that commit `singles` on b
Writes(b, singles) ==
    [i \in DOMAIN singles |->
        << singles[i][1], singles[i][2], b[singles[i][1]][singles[i][2]],
           singles[i][3] >>]

\* ------------------------------------------------------------------------
\* functional/functional_solver.py as steps
\* ------------------------------------------------------------------------
\* a call search(b), about to run propagate(b); n counts the calls of
\* propagate.loop made by this propagate
FunFrame(b) ==
    [board |-> b, p |-> b, pc |-> "propagate", n |-> 0,
     r |-> 0, c |-> 0, items |-> << >>]

\* solve without its has_conflict check
fun_solve_unchecked(src) ==
    /\ pc = "idle"
    /\ Len(hist) < MaxCalls
    /\ LET objs == CallerHeap(src)
           a == ArgId(src)
           b == to_immutable(objs[a])
       IN  /\ heap' = objs
           /\ arg' = [id |-> a, board |-> objs[a]]
           /\ pc' = "fun"
           /\ fstack' = << FunFrame(b) >>
           /\ stats' = Bump(NoStats, "searches")
           /\ UNCHANGED hist
    /\ ret' = None
    /\ lastw' = << >>
    /\ UNCHANGED << input, solvable, max_depth, depth_counter, istack >>

\* solve up to its call of search: normalise, fail fast on a conflict
fun_solve(src) ==
    /\ pc = "idle"
    /\ Len(hist) < MaxCalls
    /\ LET objs == CallerHeap(src)
           a == ArgId(src)
           b == to_immutable(objs[a])
       IN  /\ heap' = objs
           /\ arg' = [id |-> a, board |-> objs[a]]
           /\ IF fun_has_conflict(b)
              THEN /\ hist' = Append(hist,
                                Done("fun", objs[a], objs[a], None, NoStats))
                   /\ stats' = NoStats
                   /\ UNCHANGED << pc, fstack >>
              ELSE /\ pc' = "fun"
                   /\ fstack' = << FunFrame(b) >>
                   /\ stats' = Bump(NoStats, "searches")
                   /\ UNCHANGED hist
    /\ ret' = None
    /\ lastw' = << >>
    /\ UNCHANGED << input, solvable, max_depth, depth_counter, istack >>

\* propagate.loop without its cell_has_no_candidates check: it never
\* returns None
fun_propagate_pass_no_check ==
    /\ pc = "fun"
    /\ fstack # << >>
    /\ Top(fstack).pc = "propagate"
    /\ LET fr == Top(fstack)
           b == fr.p
           cands == fun_all_candidates(b)
           singles == find_singletons(b, cands)
       IN  IF singles = << >>
           THEN /\ fstack' = SetTop(fstack,
                                [fr EXCEPT !.pc = "select", !.n = @ + 1])
                /\ lastw' = << >>
                /\ UNCHANGED ret
           ELSE /\ fstack' = SetTop(fstack,
                                [fr EXCEPT !.p = apply_singles(b, singles),
                                           !.n = @ + 1])
                /\ lastw' = Writes(b, singles)
                /\ UNCHANGED ret
    /\ stats' = Bump(stats, "passes")
    /\ UNCHANGED << input, solvable, max_depth, depth_counter, heap, pc, arg, istack, hist >>

\* one call of propagate.loop
fun_propagate_pass ==
    /\ pc = "fun"
    /\ fstack # << >>
    /\ Top(fstack).pc = "propagate"
    /\ LET fr == Top(fstack)
           b == fr.p
           cands == fun_all_candidates(b)
           singles == find_singletons(b, cands)
       IN  IF fun_cell_has_no_candidates(cands)
           THEN \* propagate returns None, and so does search
                /\ fstack' = Pop(fstack)
                /\ ret' = None
                /\ lastw' = << >>
           ELSE IF singles = << >>
           THEN \* fixed point: propagate returns b
                /\ fstack' = SetTop(fstack,
                                [fr EXCEPT !.pc = "select", !.n = @ + 1])
                /\ lastw' = << >>
                /\ UNCHANGED ret
           ELSE /\ fstack' = SetTop(fstack,
                                [fr EXCEPT !.p = apply_singles(b, singles),
                                           !.n = @ + 1])
                /\ lastw' = Writes(b, singles)
                /\ UNCHANGED ret
    /\ stats' = Bump(stats, "passes")
    /\ UNCHANGED << input, solvable, max_depth, depth_counter, heap, pc, arg, istack, hist >>

\* search after propagate returned p: is_solved, then choose_mrv_cell
fun_search_select ==
    /\ pc = "fun"
    /\ fstack # << >>
    /\ Top(fstack).pc = "select"
    /\ LET fr == Top(fstack)
           choice == fun_choose_mrv_cell(fr.p)
       IN  IF fun_is_solved(fr.p)
           THEN /\ fstack' = Pop(fstack)
                /\ ret' = Some(fr.p)
                /\ UNCHANGED stats
           ELSE IF IsNone(choice)
           THEN /\ fstack' = Pop(fstack)
                /\ ret' = None
                /\ stats' = Bump(stats, "selects")
           ELSE /\ fstack' = SetTop(fstack,
                                [fr EXCEPT !.pc = "try",
                                           !.r = Val(choice)[1],
                                           !.c = Val(choice)[2],
                                           !.items = Val(choice)[3]])
                /\ stats' = Bump(stats, "selects")
                /\ UNCHANGED ret
    /\ lastw' = << >>
    /\ UNCHANGED << input, solvable, max_depth, depth_counter, heap, pc, arg, istack, hist >>

\* try_each.try_all(items): test_func(items[0]) = search(set_cell(p, r, c, val))
fun_try_all ==
    /\ pc = "fun"
    /\ fstack # << >>
    /\ Top(fstack).pc = "try"
    /\ LET fr == Top(fstack)
       IN  IF fr.items = << >>
           THEN /\ fstack' = Pop(fstack)
                /\ ret' = None
                /\ lastw' = << >>
                /\ UNCHANGED stats
           ELSE /\ fstack' = Append(SetTop(fstack, [fr EXCEPT !.pc = "wait"]),
                                FunFrame(fun_set_cell(fr.p, fr.r, fr.c,
                                                      Head(fr.items))))
                /\ lastw' = << << fr.r, fr.c, fr.p[fr.r][fr.c], Head(fr.items) >> >>
                /\ stats' = Bump(Bump(stats, "branches"), "searches")
                /\ UNCHANGED ret
    /\ UNCHANGED << input, solvable, max_depth, depth_counter, heap, pc, arg, istack, hist >>

\* try_all that returns what test_func(items[0]) returned, None included,
\* and never goes on to items[1:]
fun_try_next_give_up ==
    /\ pc = "fun"
    /\ fstack # << >>
    /\ Top(fstack).pc = "wait"
    /\ fstack' = Pop(fstack)
    /\ lastw' = << >>
    /\ UNCHANGED << input, solvable, max_depth, depth_counter, heap, pc, arg, istack, ret, stats, hist >>

\* try_all after test_func(items[0]) returned: the result, or try_all(items[1:])
fun_try_next ==
    /\ pc = "fun"
    /\ fstack # << >>
    /\ Top(fstack).pc = "wait"
    /\ LET fr == Top(fstack)
       IN  IF ~ IsNone(ret)
           THEN /\ fstack' = Pop(fstack)
                /\ UNCHANGED ret
           ELSE /\ fstack' = SetTop(fstack,
                                [fr EXCEPT !.pc = "try", !.items = Tail(fr.items)])
                /\ UNCHANGED ret
    /\ lastw' = << >>
    /\ UNCHANGED << input, solvable, max_depth, depth_counter, heap, pc, arg, istack, stats, hist >>

\* solve after search returned: None, or from_immutable(res)
fun_return ==
    /\ pc = "fun"
    /\ fstack = << >>
    /\ hist' = Append(hist,
                  Done("fun", arg.board, heap[arg.id],
                       IF IsNone(ret) THEN None
                       ELSE Some(from_immutable(Val(ret))),
                       stats))
    /\ pc' = "idle"
    /\ heap' = << heap[1] >>
    /\ lastw' = << >>
    /\ UNCHANGED << input, solvable, max_depth, depth_counter, arg, fstack, istack, ret, stats >>

\* ------------------------------------------------------------------------
\* imperative/solver_imperative.py as steps
\* ------------------------------------------------------------------------
\* The boards are objects of the heap, named by their index.  An object is
\* dropped when the call that made it has returned None (the caller's own
\* objects, heap[1] .. heap[arg.id], never are); the objects of a successful
\* search live until solve has returned.
Alloc(h, b) == Append(h, b)
Release(h, id) == SubSeq(h, 1, IF id <= arg.id THEN arg.id ELSE id - 1)

\* a call search(board): p_board = copy_board(board), about to run
\* propagate; n counts the iterations of the while loop of this propagate
ImpFrame(board_id, p_id) ==
    [board |-> board_id, p |-> p_id, pc |-> "propagate", n |-> 0,
     r |-> 0, c |-> 0, cands |-> << >>, i |-> 1]

\* solve that copies the board for has_conflict only and lets the first
\* propagate work on the caller's own object (no copy_board in between)
imp_solve_in_place(src) ==
    /\ pc = "idle"
    /\ Len(hist) < MaxCalls
    /\ LET objs == CallerHeap(src)
           a == ArgId(src)
           h1 == Alloc(objs, copy_board(objs[a]))
           board == Len(h1)
       IN  /\ arg' = [id |-> a, board |-> objs[a]]
           /\ IF imp_has_conflict(h1[board])
              THEN /\ hist' = Append(hist,
                                Done("imp", objs[a], objs[a], None, NoStats))
                   /\ heap' = objs
                   /\ stats' = NoStats
                   /\ UNCHANGED << pc, istack >>
              ELSE /\ pc' = "imp"
                   /\ heap' = h1
                   /\ istack' = << ImpFrame(board, a) >>
                   /\ stats' = Bump(NoStats, "searches")
                   /\ UNCHANGED hist
    /\ ret' = None
    /\ lastw' = << >>
    /\ UNCHANGED << input, solvable, max_depth, depth_counter, fstack >>

\* solve through one solver made by create_backtracking_solver(max_depth = 1)
\* and kept between the calls: its depth_counter lets the first call search
\* and makes every later call return None
imp_solve_counted(src) ==
    /\ pc = "idle"
    /\ Len(hist) < MaxCalls
    /\ LET objs == CallerHeap(src)
           a == ArgId(src)
           h1 == Alloc(objs, copy_board(objs[a]))
           board == Len(h1)
           h2 == Alloc(h1, copy_board(h1[board]))
       IN  /\ arg' = [id |-> a, board |-> objs[a]]
           /\ IF imp_has_conflict(h1[board]) \/ Len(hist) >= 1
              THEN /\ hist' = Append(hist,
                                Done("imp", objs[a], objs[a], None, NoStats))
                   /\ heap' = objs
                   /\ stats' = NoStats
                   /\ UNCHANGED << pc, istack >>
              ELSE /\ pc' = "imp"
                   /\ heap' = h2
                   /\ istack' = << ImpFrame(board, Len(h2)) >>
                   /\ stats' = Bump(NoStats, "searches")
                   /\ UNCHANGED hist
    /\ ret' = None
    /\ lastw' = << >>
    /\ UNCHANGED << input, solvable, max_depth, depth_counter, fstack >>

\* solve up to its call of search: copy, fail fast on a conflict
imp_solve(src) ==
    /\ pc = "idle"
    /\ Len(hist) < MaxCalls
    /\ LET objs == CallerHeap(src)
           a == ArgId(src)
           h1 == Alloc(objs, copy_board(objs[a]))
           board == Len(h1)
           h2 == Alloc(h1, copy_board(h1[board]))
       IN  /\ arg' = [id |-> a, board |-> objs[a]]
           /\ IF imp_has_conflict(h1[board])
              THEN /\ hist' = Append(hist,
                                Done("imp", objs[a], objs[a], None, NoStats))
                   /\ heap' = objs
                   /\ stats' = NoStats
                   /\ UNCHANGED << pc, istack >>
              ELSE /\ pc' = "imp"
                   /\ heap' = h2
                   /\ istack' = << ImpFrame(board, Len(h2)) >>
                   /\ stats' = Bump(NoStats, "searches")
                   /\ UNCHANGED hist
    /\ ret' = None
    /\ lastw' = << >>
    /\ UNCHANGED << input, solvable, max_depth, depth_counter, fstack >>

\* propagate with `if` for `while`: one pass, which commits the singletons
\* and returns the board without looking at it again
imp_propagate_pass_once ==
    /\ pc = "imp"
    /\ istack # << >>
    /\ Top(istack).pc = "propagate"
    /\ LET fr == Top(istack)
           board == heap[fr.p]
           cands == imp_all_candidates(board)
           singles == imp_singles(board, cands)
       IN  IF imp_cell_has_no_candidates(cands)
           THEN /\ istack' = Pop(istack)
                /\ heap' = Release(heap, fr.board)
                /\ ret' = None
                /\ lastw' = << >>
           ELSE /\ istack' = SetTop(istack,
                                [fr EXCEPT !.pc = "select", !.n = @ + 1])
                /\ heap' = [heap EXCEPT ![fr.p] = imp_commit(board, singles)]
                /\ lastw' = Writes(board, singles)
                /\ UNCHANGED ret
    /\ stats' = Bump(stats, "passes")
    /\ UNCHANGED << input, solvable, max_depth, depth_counter, pc, arg, fstack, hist >>

\* one iteration of the while loop of propagate, on the object p_board
imp_propagate_pass ==
    /\ pc = "imp"
    /\ istack # << >>
    /\ Top(istack).pc = "propagate"
    /\ LET fr == Top(istack)
           board == heap[fr.p]
           cands == imp_all_candidates(board)
           singles == imp_singles(board, cands)
       IN  IF imp_cell_has_no_candidates(cands)
           THEN /\ istack' = Pop(istack)
                /\ heap' = Release(heap, fr.board)
                /\ ret' = None
                /\ lastw' = << >>
           ELSE IF singles = << >>
           THEN /\ istack' = SetTop(istack,
                                [fr EXCEPT !.pc = "select", !.n = @ + 1])
                /\ lastw' = << >>
                /\ UNCHANGED << heap, ret >>
           ELSE /\ heap' = [heap EXCEPT ![fr.p] = imp_commit(board, singles)]
                /\ istack' = SetTop(istack, [fr EXCEPT !.n = @ + 1])
                /\ lastw' = Writes(board, singles)
                /\ UNCHANGED ret
    /\ stats' = Bump(stats, "passes")
    /\ UNCHANGED << input, solvable, max_depth, depth_counter, pc, arg, fstack, hist >>

\* search after propagate returned p: is_solved, then choose_mrv_cell
imp_search_select ==
    /\ pc = "imp"
    /\ istack # << >>
    /\ Top(istack).pc = "select"
    /\ LET fr == Top(istack)
           choice == imp_choose_mrv_cell(heap[fr.p])
       IN  IF imp_is_solved(heap[fr.p])
           THEN /\ istack' = Pop(istack)
                /\ ret' = Some(fr.p)
                /\ UNCHANGED << heap, stats >>
           ELSE IF IsNone(choice)
           THEN /\ istack' = Pop(istack)
                /\ heap' = Release(heap, fr.board)
                /\ ret' = None
                /\ stats' = Bump(stats, "selects")
           ELSE /\ istack' = SetTop(istack,
                                [fr EXCEPT !.pc = "try",
                                           !.r = Val(choice)[1],
                                           !.c = Val(choice)[2],
                                           !.cands = Val(choice)[3],
                                           !.i = 1])
                /\ stats' = Bump(stats, "selects")
                /\ UNCHANGED << heap, ret >>
    /\ lastw' = << >>
    /\ UNCHANGED << input, solvable, max_depth, depth_counter, pc, arg, fstack, hist >>

\* the loop with next_board = p for next_board = copy_board(p): set_cell
\* writes the candidate into p itself
imp_try_candidate_no_copy ==
    /\ pc = "imp"
    /\ istack # << >>
    /\ Top(istack).pc = "try"
    /\ LET fr == Top(istack)
           next_board == fr.p
           h2 == [heap EXCEPT ![next_board] =
                      imp_set_cell(@, fr.r, fr.c, fr.cands[fr.i])]
           h3 == Alloc(h2, copy_board(h2[next_board]))
       IN  IF fr.i > Len(fr.cands)
           THEN /\ istack' = Pop(istack)
                /\ heap' = Release(heap, fr.board)
                /\ ret' = None
                /\ lastw' = << >>
                /\ UNCHANGED stats
           ELSE /\ istack' = Append(SetTop(istack, [fr EXCEPT !.pc = "wait"]),
                                ImpFrame(next_board, Len(h3)))
                /\ heap' = h3
                /\ lastw' = << << fr.r, fr.c, heap[next_board][fr.r][fr.c],
                                  fr.cands[fr.i] >> >>
                /\ stats' = Bump(Bump(stats, "branches"), "searches")
                /\ UNCHANGED ret
    /\ UNCHANGED << input, solvable, max_depth, depth_counter, pc, arg, fstack, hist >>

\* for val in candidates: next_board = copy_board(p); set_cell; search
imp_try_candidate ==
    /\ pc = "imp"
    /\ istack # << >>
    /\ Top(istack).pc = "try"
    /\ LET fr == Top(istack)
           h1 == Alloc(heap, copy_board(heap[fr.p]))
           next_board == Len(h1)
           h2 == [h1 EXCEPT ![next_board] =
                      imp_set_cell(@, fr.r, fr.c, fr.cands[fr.i])]
           h3 == Alloc(h2, copy_board(h2[next_board]))
       IN  IF fr.i > Len(fr.cands)
           THEN /\ istack' = Pop(istack)
                /\ heap' = Release(heap, fr.board)
                /\ ret' = None
                /\ lastw' = << >>
                /\ UNCHANGED stats
           ELSE /\ istack' = Append(SetTop(istack, [fr EXCEPT !.pc = "wait"]),
                                ImpFrame(next_board, Len(h3)))
                /\ heap' = h3
                /\ lastw' = << << fr.r, fr.c, h1[next_board][fr.r][fr.c],
                                  fr.cands[fr.i] >> >>
                /\ stats' = Bump(Bump(stats, "branches"), "searches")
                /\ UNCHANGED ret
    /\ UNCHANGED << input, solvable, max_depth, depth_counter, pc, arg, fstack, hist >>

\* the loop without its `return result`: it goes on to the next val after
\* a success as after a failure
imp_try_next_keep_trying ==
    /\ pc = "imp"
    /\ istack # << >>
    /\ Top(istack).pc = "wait"
    /\ istack' = SetTop(istack,
                   [Top(istack) EXCEPT !.pc = "try", !.i = Top(istack).i + 1])
    /\ lastw' = << >>
    /\ UNCHANGED << input, solvable, max_depth, depth_counter, heap, pc, arg, fstack, ret, stats, hist >>

\* the loop after search(next_board) returned: return it, or the next val
imp_try_next ==
    /\ pc = "imp"
    /\ istack # << >>
    /\ Top(istack).pc = "wait"
    /\ LET fr == Top(istack)
       IN  IF ~ IsNone(ret)
           THEN istack' = Pop(istack)
           ELSE istack' = SetTop(istack,
                              [fr EXCEPT !.pc = "try", !.i = fr.i + 1])
    /\ lastw' = << >>
    /\ UNCHANGED << input, solvable, max_depth, depth_counter, heap, pc, arg, fstack, ret, stats, hist >>

\* solve after search returned: None, or the board object search returned
imp_return ==
    /\ pc = "imp"
    /\ istack = << >>
    /\ hist' = Append(hist,
                  Done("imp", arg.board, heap[arg.id],
                       IF IsNone(ret) THEN None ELSE Some(heap[Val(ret)]),
                       stats))
    /\ pc' = "idle"
    /\ heap' = << heap[1] >>
    /\ lastw' = << >>
    /\ UNCHANGED << input, solvable, max_depth, depth_counter, arg, fstack, istack, ret, stats >>

\* ------------------------------------------------------------------------
\* create_backtracking_solver: calls through the solver it returned
\* ------------------------------------------------------------------------
\* solver without `depth_counter[0] += 1`
solver_no_count(src) ==
    /\ pc = "idle"
    /\ Len(hist) < MaxCalls
    /\ LET objs == CallerHeap(src)
           a == ArgId(src)
           h1 == Alloc(objs, copy_board(objs[a]))
       IN  /\ arg' = [id |-> a, board |-> objs[a]]
           /\ IF ~ IsNone(max_depth) /\ depth_counter >= Val(max_depth)
              THEN /\ hist' = Append(hist,
                                Done("imp", objs[a], objs[a], None, NoStats))
                   /\ heap' = objs
                   /\ stats' = NoStats
                   /\ UNCHANGED << pc, istack >>
              ELSE /\ pc' = "imp"
                   /\ heap' = h1
                   /\ istack' = << ImpFrame(a, Len(h1)) >>
                   /\ stats' = Bump(NoStats, "searches")
                   /\ UNCHANGED hist
    /\ ret' = None
    /\ lastw' = << >>
    /\ UNCHANGED << input, solvable, max_depth, depth_counter, fstack >>

\* solver(board) up to its call of search: the test of the counter, the
\* increment, search(board) on the object that was passed
solver(src) ==
    /\ pc = "idle"
    /\ Len(hist) < MaxCalls
    /\ LET objs == CallerHeap(src)
           a == ArgId(src)
           h1 == Alloc(objs, copy_board(objs[a]))
       IN  /\ arg' = [id |-> a, board |-> objs[a]]
           /\ IF ~ IsNone(max_depth) /\ depth_counter >= Val(max_depth)
              THEN /\ hist' = Append(hist,
                                Done("imp", objs[a], objs[a], None, NoStats))
                   /\ heap' = objs
                   /\ stats' = NoStats
                   /\ UNCHANGED << pc, istack, depth_counter >>
              ELSE /\ depth_counter' = depth_counter + 1
                   /\ pc' = "imp"
                   /\ heap' = h1
                   /\ istack' = << ImpFrame(a, Len(h1)) >>
                   /\ stats' = Bump(NoStats, "searches")
                   /\ UNCHANGED hist
    /\ ret' = None
    /\ lastw' = << >>
    /\ UNCHANGED << input, solvable, max_depth, fstack >>

\* solver after search returned: it returns what search returned
solver_return ==
    /\ pc = "imp"
    /\ istack = << >>
    /\ hist' = Append(hist,
                  Done("imp", arg.board, heap[arg.id],
                       IF IsNone(ret) THEN None ELSE Some(heap[Val(ret)]),
                       stats))
    /\ pc' = "idle"
    /\ heap' = << heap[1] >>
    /\ lastw' = << >>
    /\ UNCHANGED << input, solvable, max_depth, depth_counter, arg, fstack,
                    istack, ret, stats >>

\* the caller makes one solver, with max_depth None or 0 .. MaxDepth, and
\* makes all its calls through it
FactoryInit ==
    /\ input \in Inputs
    /\ solvable = Completable(input)
    /\ heap = << input >>
    /\ pc = "idle"
    /\ arg = [id |-> 1, board |-> input]
    /\ fstack = << >>
    /\ istack = << >>
    /\ ret = None
    /\ stats = NoStats
    /\ lastw = << >>
    /\ hist = << >>
    /\ max_depth \in { None } \cup { Some(n) : n \in 0 .. MaxDepth }
    /\ depth_counter = 0

FactoryNext ==
    \/ \E src \in Sources : solver(src)
    \/ imp_propagate_pass
    \/ imp_search_select
    \/ imp_try_candidate
    \/ imp_try_next
    \/ solver_return

FactorySpec == FactoryInit /\ [][FactoryNext]_vars

\* ------------------------------------------------------------------------
\* The caller: calls of either solve, on its board or on an earlier result
\* ------------------------------------------------------------------------
Next ==
    \/ \E src \in Sources : fun_solve(src)
    \/ fun_propagate_pass
    \/ fun_search_select
    \/ fun_try_all
    \/ fun_try_next
    \/ fun_return
    \/ \E src \in Sources : imp_solve(src)
    \/ imp_propagate_pass
    \/ imp_search_select
    \/ imp_try_candidate
    \/ imp_try_next
    \/ imp_return

Spec == Init /\ [][Next]_vars

\* ------------------------------------------------------------------------
\* Properties
\* ------------------------------------------------------------------------
\* has_conflict as the implementation that ran the call computes it
has_conflict_by(impl, b) ==
    IF impl = "fun" THEN fun_has_conflict(to_immutable(b))
    ELSE imp_has_conflict(copy_board(b))

\* b has a conflict-free completion; for the caller's board this was
\* recorded when the board was drawn
HasCompletion(b) == IF b = input THEN solvable ELSE Completable(b)

\* the boards that were passed to a solve or returned by one
BoardsSeen ==
    { arg.board }
    \cup { hist[k].arg : k \in DOMAIN hist }
    \cup { Val(hist[k].out) : k \in { j \in DOMAIN hist : ~ IsNone(hist[j].out) } }

\* C1 (Validity): every board that either solve returned for a 9x9 board
\* with cells in 0..9 contains no 0, and has_conflict of it is false: no
\* row, column or box of it holds a digit twice.
C1_Validity ==
    \A k \in DOMAIN hist :
        (InRange(hist[k].arg) /\ ~ IsNone(hist[k].out)) =>
            /\ Full(Val(hist[k].out))
            /\ ~ has_conflict_by(hist[k].impl, Val(hist[k].out))
            /\ ~ Duplicate(Val(hist[k].out))

\* C2 (Soundness w.r.t. fixed cells): a returned board agrees with the board
\* that was passed on every non-zero cell of it, and every write of a
\* propagation pass or of a branch goes to a cell that holds 0 at that moment.
C2_FixedCellsKept ==
    /\ \A k \in DOMAIN hist :
           ~ IsNone(hist[k].out) => Extends(Val(hist[k].out), hist[k].arg)
    /\ \A i \in DOMAIN lastw : lastw[i][3] = 0

\* a call on hardpuzzle has returned a board after propagating and branching
C2_Witness ==
    \E k \in DOMAIN hist :
        /\ hist[k].arg = hardpuzzle
        /\ ~ IsNone(hist[k].out)
        /\ hist[k].stats.passes > 0
        /\ hist[k].stats.branches > 0

\* C3 (Completeness): a call on a board that has a conflict-free completion
\* returns a board, never None; the all-zero board is such a board.
C3_Completeness ==
    \A k \in DOMAIN hist :
        IsNone(hist[k].out) => ~ HasCompletion(hist[k].arg)

\* each solve has returned a board for the all-zero board, after branching
C3_Witness ==
    /\ Len(hist) = 2
    /\ hist[1].impl # hist[2].impl
    /\ \A k \in DOMAIN hist :
           /\ hist[k].arg = ZeroBoard
           /\ HasCompletion(hist[k].arg)
           /\ ~ IsNone(hist[k].out)
           /\ hist[k].stats.branches > 0

\* C4 (Unsatisfiable inputs give None): a call on a board with cells in 0..9
\* that has no conflict-free completion returns None, also when has_conflict
\* of the board is false.
C4_UnsatisfiableGivesNone ==
    \A k \in DOMAIN hist :
        \/ IsNone(hist[k].out)
        \/ ~ InRange(hist[k].arg)
        \/ HasCompletion(hist[k].arg)

\* C5 (Fail-fast on conflict): a call on a board of which has_conflict is
\* true returns None, and has by then started no search, run no propagation
\* pass, selected no cell and made no branch board.
C5_FailFast ==
    \A k \in DOMAIN hist :
        has_conflict_by(hist[k].impl, hist[k].arg) =>
            /\ IsNone(hist[k].out)
            /\ hist[k].stats = NoStats

\* each solve has returned for the puzzle with a second 5 in row 0
C5_Witness ==
    /\ Len(hist) = 2
    /\ hist[1].impl # hist[2].impl
    /\ \A k \in DOMAIN hist :
           /\ hist[k].arg = Edit(puzzle, << 0, 4 >>, 5)
           /\ has_conflict_by(hist[k].impl, hist[k].arg)
           /\ IsNone(hist[k].out)

\* C6 (has_conflict): on every board passed to a solve or returned by one,
\* has_conflict of either implementation is true exactly when two different
\* cells of a row, of a column or of a box hold the same non-zero value.
\* The boards are looked at between two calls, when each of them is known.
C6_HasConflictIffDuplicate ==
    pc = "idle" =>
        \A b \in BoardsSeen :
            LET d == Duplicate(b)
            IN  /\ fun_has_conflict(to_immutable(b)) = d
                /\ imp_has_conflict(b) = d

\* has_conflict has been computed, as true, for a board whose only duplicate
\* is the 8 at two cells of the top-left box, and which has zeros in every row
C6_Witness ==
    \E k \in DOMAIN hist :
        /\ hist[k].arg = Edit(puzzle, << 1, 1 >>, 8)
        /\ Duplicate(hist[k].arg)
        /\ fun_has_conflict(to_immutable(hist[k].arg))
        /\ imp_has_conflict(hist[k].arg)
        /\ IsNone(hist[k].out)

\* C7 (Implementation-equivalence): a functional and an imperative call on
\* the same board return the same output: None both, or the same cells.
C7_SameOutputs ==
    \A j \in DOMAIN hist : \A k \in DOMAIN hist :
        (hist[j].impl # hist[k].impl /\ hist[j].arg = hist[k].arg) =>
            hist[j].out = hist[k].out

\* both solves have returned the same board for hardpuzzle, after branching
C7_Witness ==
    /\ Len(hist) = 2
    /\ hist[1].impl = "imp"
    /\ hist[2].impl = "fun"
    /\ hist[1].arg = hardpuzzle
    /\ hist[2].arg = hardpuzzle
    /\ hist[1].stats.branches > 0
    /\ ~ IsNone(hist[1].out)
    /\ hist[1].out = hist[2].out

\* C8 (Idempotence): when a call on a board with cells in 0..9 returned a
\* board S, a later call on S returns S: not None, and no cell changed.
C8_Idempotence ==
    \A j \in DOMAIN hist : \A k \in DOMAIN hist :
        (/\ j < k
         /\ InRange(hist[j].arg)
         /\ ~ IsNone(hist[j].out)
         /\ hist[k].arg = Val(hist[j].out)) =>
            hist[k].out = hist[j].out

C10_InputValidation ==
    /\ pc # "idle" => InRange(arg.board)
    /\ \A k \in DOMAIN hist :
           ~ InRange(hist[k].arg) =>
               /\ hist[k].raised
               /\ hist[k].stats = NoStats

\* C11 (Input not modified): while a solve runs and after it has returned, a
\* board or None, every cell of the board the caller passed has the value it
\* had at the call; the board the imperative solve returns is another
\* object than the one that was passed.
C11_InputUnchanged ==
    /\ pc # "idle" => heap[arg.id] = arg.board
    /\ heap[1] = input
    /\ \A k \in DOMAIN hist : hist[k].after = hist[k].arg
    /\ (pc = "imp" /\ ~ IsNone(ret)) => Val(ret) # arg.id
    /\ \A i \in DOMAIN istack : istack[i].p # arg.id

\* each solve has returned a board for hardpuzzle, after propagation passes
\* and branches, and the caller's board is as it was
C11_Witness ==
    /\ Len(hist) = 2
    /\ hist[1].impl = "fun"
    /\ hist[2].impl = "imp"
    /\ \A k \in DOMAIN hist :
           /\ hist[k].arg = hardpuzzle
           /\ hist[k].after = hardpuzzle
           /\ ~ IsNone(hist[k].out)
           /\ hist[k].out # Some(hardpuzzle)
           /\ hist[k].stats.passes > 1
           /\ hist[k].stats.branches > 0

\* the boards at hand: between two calls the board that was passed last (or
\* is about to be passed first), and, in the caller's first call, the board
\* on which the innermost functional search is about to start a pass of
\* propagate; the second is, at the last pass, the board search goes on
\* with.  Later calls work on these boards again or on a board that was
\* returned, which is the board passed last once the call is over.
WorkBoards ==
    (IF pc = "idle" THEN { arg.board } ELSE {})
    \cup (IF pc = "fun" /\ hist = << >> /\ fstack # << >>
             /\ Top(fstack).pc = "propagate"
          THEN { Top(fstack).p } ELSE {})

\* s lists, in ascending order and without repetition, the value of the cell
\* (r, c) when it is not 0, else the digits 1..9 that occur in neither its
\* row, its column nor its box
IsCandidates(s, b, r, c) ==
    /\ \A i \in DOMAIN s : \A j \in DOMAIN s : i < j => s[i] < s[j]
    /\ Range(s) = (IF b[r][c] # 0 THEN { b[r][c] } ELSE Legal(b, r, c))

\* C12 (candidates_for): on every board at hand and for every cell,
\* candidates_for of both implementations returns the cell's value alone
\* when it is not 0, else the digits 1..9 absent from its row, column and
\* box, ascending and without repetition; all_candidates holds that list for
\* each of the 81 cells; both implementations return the same lists.
C12_CandidatesFor ==
    \A b \in WorkBoards :
        LET fun_cands == fun_all_candidates(to_immutable(b))
            imp_cands == imp_all_candidates(b)
        IN  /\ DOMAIN fun_cands = Idx
            /\ DOMAIN imp_cands = Idx
            /\ \A r \in Idx :
                   /\ DOMAIN fun_cands[r] = Idx
                   /\ DOMAIN imp_cands[r] = Idx
                   /\ \A c \in Idx :
                          /\ IsCandidates(fun_cands[r][c], b, r, c)
                          /\ imp_cands[r][c] = fun_cands[r][c]
            /\ \A rc \in EditCells :
                   /\ fun_candidates_for(to_immutable(b), rc[1], rc[2])
                          = fun_cands[rc[1]][rc[2]]
                   /\ imp_candidates_for(b, rc[1], rc[2]) = imp_cands[rc[1]][rc[2]]

\* the functional propagate is about to take the candidates of a board, not
\* the one search was called on, that has filled cells, an empty cell with
\* one candidate and an empty cell with several
C12_Witness ==
    /\ pc = "fun"
    /\ fstack # << >>
    /\ Top(fstack).pc = "propagate"
    /\ LET b == Top(fstack).p
       IN  /\ b # Top(fstack).board
           /\ b \in WorkBoards
           /\ \E rc \in EmptyCells(b) :
                  Len(imp_candidates_for(b, rc[1], rc[2])) = 1
           /\ \E rc \in EmptyCells(b) :
                  /\ Len(fun_candidates_for(b, rc[1], rc[2])) >= 2
                  /\ fun_candidates_for(b, rc[1], rc[2])
                         = imp_candidates_for(b, rc[1], rc[2])
           /\ \E r \in Idx : \E c \in Idx :
                  /\ b[r][c] # 0
                  /\ imp_candidates_for(b, r, c) = << b[r][c] >>

\* C13 (Reference puzzle): each solve, called on the puzzle of main.py (first
\* row 5,3,0,0,7,0,0,0,0), returns a board without 0 and without conflict
\* whose first row is 5,3,4,6,7,8,9,1,2.
C13_ReferencePuzzle ==
    \A k \in DOMAIN hist :
        hist[k].arg = puzzle =>
            /\ ~ IsNone(hist[k].out)
            /\ ValidSolution(Val(hist[k].out))
            /\ ~ has_conflict_by(hist[k].impl, Val(hist[k].out))
            /\ [c \in 1 .. N |-> Val(hist[k].out)[0][c - 1]]
                   = << 5, 3, 4, 6, 7, 8, 9, 1, 2 >>

\* each solve has returned for the puzzle of main.py
C13_Witness ==
    /\ Len(hist) = 2
    /\ hist[1].impl # hist[2].impl
    /\ hist[1].arg = puzzle
    /\ hist[2].arg = puzzle
    /\ [c \in 1 .. N |-> puzzle[0][c - 1]] = << 5, 3, 0, 0, 7, 0, 0, 0, 0 >>
    /\ Cardinality({ rc \in Idx \X Idx : puzzle[rc[1]][rc[2]] # 0 }) = 30
    /\ ~ IsNone(hist[1].out)
    /\ ~ IsNone(hist[2].out)

\* the cells (r1, c1) and (r2, c2) lie in one row, one column or one box
SameUnit(r1, c1, r2, c2) ==
    \/ r1 = r2
    \/ c1 = c2
    \/ (r1 \div BOXN = r2 \div BOXN /\ c1 \div BOXN = c2 \div BOXN)

\* C14 (Propagation preserves conflict-freeness): when propagate was called
\* on a board of which has_conflict is false and has returned a board,
\* has_conflict of the returned board is false; and no two cells written by
\* one propagation pass lie in one row, column or box with the same digit.
C14_PropagateKeepsConflictFree ==
    /\ (pc = "fun" /\ fstack # << >> /\ Top(fstack).pc = "select") =>
           (fun_has_conflict(Top(fstack).board)
            \/ ~ fun_has_conflict(Top(fstack).p))
    /\ (pc = "imp" /\ istack # << >> /\ Top(istack).pc = "select") =>
           (imp_has_conflict(heap[Top(istack).board])
            \/ ~ imp_has_conflict(heap[Top(istack).p]))
    /\ \A i \in DOMAIN lastw : \A j \in DOMAIN lastw :
           (i # j /\ SameUnit(lastw[i][1], lastw[i][2], lastw[j][1], lastw[j][2]))
               => lastw[i][4] # lastw[j][4]

\* C15 (Propagation fixed point): a board that propagate has returned has no
\* empty cell with exactly one candidate and none with no candidate, the
\* candidates being those of the returned board; and a pass of propagate on
\* it finds no contradiction and no singleton, so returns it as it is.
C15_PropagateFixedPoint ==
    /\ (pc = "fun" /\ fstack # << >> /\ Top(fstack).pc = "select") =>
           LET p == Top(fstack).p
               cands == fun_all_candidates(p)
           IN  /\ \A rc \in EmptyCells(p) :
                      /\ Cardinality(Legal(p, rc[1], rc[2])) >= 2
                      /\ Len(cands[rc[1]][rc[2]]) >= 2
               /\ ~ fun_cell_has_no_candidates(cands)
               /\ find_singletons(p, cands) = << >>
    /\ (pc = "imp" /\ istack # << >> /\ Top(istack).pc = "select") =>
           LET p == heap[Top(istack).p]
               cands == imp_all_candidates(p)
           IN  /\ \A rc \in EmptyCells(p) :
                      /\ Cardinality(Legal(p, rc[1], rc[2])) >= 2
                      /\ Len(cands[rc[1]][rc[2]]) >= 2
               /\ ~ imp_cell_has_no_candidates(cands)
               /\ imp_singles(p, cands) = << >>

\* the imperative propagate has committed singletons and returned a board
\* that still has empty cells
C15_Witness ==
    /\ pc = "imp"
    /\ istack # << >>
    /\ Top(istack).pc = "select"
    /\ heap[Top(istack).p] # heap[Top(istack).board]
    /\ EmptyCells(heap[Top(istack).p]) # {}

\* some empty cell of b has no candidate
DeadCell(b) == \E rc \in EmptyCells(b) : Legal(b, rc[1], rc[2]) = {}

\* C16 (Propagation contradiction): a pass of propagate ends the call with
\* None exactly when, at the start of that pass, some empty cell of the board
\* (the board passed in, or one reached by committing singletons) has no
\* candidate.
C16_PropagateNoneIffDeadCell ==
    [][ /\ (pc = "fun" /\ fstack # << >> /\ Top(fstack).pc = "propagate") =>
               ((Len(fstack') < Len(fstack) /\ IsNone(ret'))
                    <=> DeadCell(Top(fstack).p))
        /\ (pc = "imp" /\ istack # << >> /\ Top(istack).pc = "propagate") =>
               ((Len(istack') < Len(istack) /\ IsNone(ret'))
                    <=> DeadCell(heap[Top(istack).p]))
      ]_vars

\* the functional propagate, after at least one pass that committed
\* singletons, starts a pass on a board with an empty cell without candidates
C16_Witness ==
    /\ pc = "fun"
    /\ fstack # << >>
    /\ Top(fstack).pc = "propagate"
    /\ Top(fstack).p # Top(fstack).board
    /\ DeadCell(Top(fstack).p)
    /\ fun_cell_has_no_candidates(fun_all_candidates(Top(fstack).p))

\* the number of non-zero cells of b
Filled(b) == N * N - Cardinality(EmptyCells(b))

\* the pass from board b to board b2 did not end the call: more cells are
\* non-zero, no non-zero cell has changed, every new value is a digit 1..9
Progress(b, b2) ==
    /\ Filled(b2) > Filled(b)
    /\ \A r \in Idx : \A c \in Idx :
           IF b[r][c] # 0 THEN b2[r][c] = b[r][c]
           ELSE b2[r][c] \in 0 .. N

\* C17 (Propagation terminates monotonically): every pass of propagate that
\* does not end the call makes more cells non-zero, writes digits 1..9 into
\* cells that held 0 and resets no cell; the passes of one propagate that did
\* not end it are no more than the cells it has filled, and one propagate
\* makes at most 81 passes.
C17_PropagateMonotone ==
    /\ [](/\ \A i \in DOMAIN fstack :
                /\ fstack[i].n <= N * N
                /\ fstack[i].n <= Filled(fstack[i].p) - Filled(fstack[i].board)
                                  + (IF fstack[i].pc = "propagate" THEN 0 ELSE 1)
          /\ \A i \in DOMAIN istack :
                /\ istack[i].n <= N * N
                /\ istack[i].n <= Filled(heap[istack[i].p])
                                  - Filled(heap[istack[i].board])
                                  + (IF istack[i].pc = "propagate" THEN 0 ELSE 1))
    /\ [][ /\ (/\ pc = "fun" /\ fstack # << >> /\ Top(fstack).pc = "propagate"
               /\ Len(fstack') = Len(fstack) /\ Top(fstack').pc = "propagate") =>
                  Progress(Top(fstack).p, Top(fstack').p)
           /\ (/\ pc = "imp" /\ istack # << >> /\ Top(istack).pc = "propagate"
               /\ Len(istack') = Len(istack) /\ Top(istack').pc = "propagate") =>
                  Progress(heap[Top(istack).p], heap'[Top(istack').p])
         ]_vars

\* one propagate of the functional solve, called on a board with empty
\* cells, has made five passes that committed singletons
C17_Witness ==
    /\ pc = "fun"
    /\ fstack # << >>
    /\ Top(fstack).pc = "propagate"
    /\ Top(fstack).n = 5
    /\ Filled(Top(fstack).p) >= Filled(Top(fstack).board) + 5

\* (r, c) is an empty cell of b, no empty cell of b has fewer candidates,
\* and of the empty cells with as few it comes first in row-major order
IsMrvCell(b, r, c) ==
    LET cnt == [rc \in EmptyCells(b) |-> Cardinality(Legal(b, rc[1], rc[2]))]
    IN  /\ << r, c >> \in EmptyCells(b)
        /\ \A y \in EmptyCells(b) :
               \/ cnt[<< r, c >>] < cnt[y]
               \/ (cnt[<< r, c >>] = cnt[y] /\ r * N + c <= y[1] * N + y[2])

\* C18 (MRV selection): on every board at hand that has an empty cell and
\* whose empty cells all have a candidate, choose_mrv_cell of both
\* implementations returns the same (r, c, candidates): an empty cell with
\* the fewest candidates, the first such cell in row-major order, with the
\* candidate list of that cell.
C18_MrvSelection ==
    \A b \in WorkBoards :
        (EmptyCells(b) # {} /\ ~ DeadCell(b)) =>
            LET f == fun_choose_mrv_cell(to_immutable(b))
                i == imp_choose_mrv_cell(b)
            IN  /\ ~ IsNone(f)
                /\ i = f
                /\ IsMrvCell(b, Val(f)[1], Val(f)[2])
                /\ IsCandidates(Val(f)[3], b, Val(f)[1], Val(f)[2])

\* the functional propagate starts its last pass on a board, reached by
\* committing singletons, that search will pass to choose_mrv_cell: its
\* empty cells have two candidates or more, the cell both versions of
\* choose_mrv_cell pick ties with a later cell, and another has more
C18_Witness ==
    /\ pc = "fun"
    /\ fstack # << >>
    /\ Top(fstack).pc = "propagate"
    /\ LET b == Top(fstack).p
           f == fun_choose_mrv_cell(b)
       IN  /\ b # Top(fstack).board
           /\ b \in WorkBoards
           /\ EmptyCells(b) # {}
           /\ \A y \in EmptyCells(b) : Cardinality(Legal(b, y[1], y[2])) >= 2
           /\ ~ IsNone(f)
           /\ imp_choose_mrv_cell(b) = f
           /\ IsMrvCell(b, Val(f)[1], Val(f)[2])
           /\ \E y \in EmptyCells(b) :
                  /\ y[1] * N + y[2] > Val(f)[1] * N + Val(f)[2]
                  /\ Cardinality(Legal(b, y[1], y[2])) = Len(Val(f)[3])
           /\ \E y \in EmptyCells(b) :
                  Cardinality(Legal(b, y[1], y[2])) > Len(Val(f)[3])

\* C19 (Defensive contradiction in the cell selector): on every board a call
\* works on that has an empty cell without candidates, choose_mrv_cell of
\* both implementations returns None, wherever that cell comes in the scan
\* and whatever other empty cells there are.
C19_SelectorSignalsDeadCell ==
    \A b \in WorkBoards :
        DeadCell(b) =>
            /\ IsNone(fun_choose_mrv_cell(to_immutable(b)))
            /\ IsNone(imp_choose_mrv_cell(b))

\* C20 (The selector finds a cell inside search): whenever, inside search,
\* propagate has returned a board and is_solved of it is false,
\* choose_mrv_cell returns a cell, not None, and the cell has at least two
\* candidates; so search never returns through `choice is None`.
C20_ChoiceNeverNone ==
    /\ (pc = "fun" /\ fstack # << >> /\ Top(fstack).pc = "select"
        /\ ~ fun_is_solved(Top(fstack).p)) =>
           LET choice == fun_choose_mrv_cell(Top(fstack).p)
           IN  ~ IsNone(choice) /\ Len(Val(choice)[3]) >= 2
    /\ (pc = "imp" /\ istack # << >> /\ Top(istack).pc = "select"
        /\ ~ imp_is_solved(heap[Top(istack).p])) =>
           LET choice == imp_choose_mrv_cell(heap[Top(istack).p])
           IN  ~ IsNone(choice) /\ Len(Val(choice)[3]) >= 2

\* the functional search, in a call made for a branch, is about to choose a
\* cell on a board that propagate returned and that is not solved
C20_Witness ==
    /\ pc = "fun"
    /\ Len(fstack) >= 2
    /\ Top(fstack).pc = "select"
    /\ ~ fun_is_solved(Top(fstack).p)
    /\ ~ IsNone(fun_choose_mrv_cell(Top(fstack).p))

\* ------------------------------------------------------------------------
\* The search levels of the running call, whichever solve it is
\* ------------------------------------------------------------------------
\* the frames of the running search, innermost last
Stack == IF pc = "imp" THEN istack ELSE fstack

\* the candidates of the selected cell a level has not finished with: the
\* one being tried (if any) first.  try_all recurses on items[1:], the for
\* loop of the imperative search steps through candidates.
Rest(impl, fr) ==
    IF impl = "imp" THEN SubSeq(fr.cands, fr.i, Len(fr.cands)) ELSE fr.items

\* the board p a level got from propagate, and the board a level was given
PBoard(impl, h, fr) == IF impl = "imp" THEN h[fr.p] ELSE fr.p
GivenBoard(impl, h, fr) == IF impl = "imp" THEN h[fr.board] ELSE fr.board

\* s is in strictly ascending order
Ascending(s) == \A j \in DOMAIN s : \A k \in DOMAIN s : j < k => s[j] < s[k]

\* C21 (Branch order and first success): at each search level the candidates
\* of the selected cell are tried in ascending numeric order: the level
\* starts with all the candidates of the cell, in ascending order, each
\* branch takes the smallest one left, and a candidate leaves the list only
\* when its recursive search has returned None; when a recursive search
\* returns a board, the level returns that board at once and tries nothing
\* more; and a level that has selected a cell returns None only when no
\* candidate is left.
C21_BranchOrder ==
    [][ (pc # "idle" /\ pc' = pc /\ Stack # << >>) =>
          LET fr == Top(Stack)
              rest == Rest(pc, fr)
          IN  /\ (fr.pc = "select" /\ Len(Stack') = Len(Stack)) =>
                    LET rest2 == Rest(pc, Top(Stack'))
                    IN  /\ Top(Stack').pc = "try"
                        /\ Ascending(rest2)
                        /\ Range(rest2) = Legal(PBoard(pc, heap, fr),
                                                Top(Stack').r, Top(Stack').c)
              /\ Len(Stack') = Len(Stack) + 1 =>
                    /\ fr.pc = "try"
                    /\ rest # << >>
                    /\ Ascending(rest)
                    /\ GivenBoard(pc, heap', Top(Stack'))[fr.r][fr.c] = rest[1]
              /\ (fr.pc = "wait" /\ ~ IsNone(ret)) =>
                    /\ Stack' = Pop(Stack)
                    /\ ret' = ret
              /\ (fr.pc = "wait" /\ IsNone(ret)) =>
                    /\ Len(Stack') = Len(Stack)
                    /\ Top(Stack').pc = "try"
                    /\ Rest(pc, Top(Stack')) = Tail(rest)
              /\ (fr.pc = "try" /\ Len(Stack') < Len(Stack)) =>
                    /\ rest = << >>
                    /\ IsNone(ret')
      ]_vars

\* a level whose smaller candidates have failed gets a board back from the
\* candidate it is trying, while a level of the stack still has a larger
\* candidate it has not tried
C21_Witness ==
    /\ pc \in { "fun", "imp" }
    /\ Stack # << >>
    /\ Top(Stack).pc = "wait"
    /\ ~ IsNone(ret)
    /\ \E v \in Legal(PBoard(pc, heap, Top(Stack)), Top(Stack).r, Top(Stack).c) :
           v < Rest(pc, Top(Stack))[1]
    /\ \E k \in DOMAIN Stack : Len(Rest(pc, Stack[k])) >= 2

\* C22 (Branch isolation): no step of a solve changes the board a running
\* search was given, nor, once the search has selected its cell, its
\* propagated board p; and the board handed to the recursive call for a
\* candidate v is p with only the selected cell set to v.
C22_BranchIsolation ==
    [][ (pc # "idle" /\ pc' = pc) =>
          /\ \A k \in DOMAIN Stack :
                k <= Len(Stack') =>
                   /\ GivenBoard(pc, heap', Stack'[k]) =
                          GivenBoard(pc, heap, Stack[k])
                   /\ Stack[k].pc \in { "try", "wait" } =>
                          PBoard(pc, heap', Stack'[k]) =
                              PBoard(pc, heap, Stack[k])
          /\ Len(Stack') = Len(Stack) + 1 =>
                LET fr == Top(Stack)
                IN  GivenBoard(pc, heap', Top(Stack')) =
                        Edit(PBoard(pc, heap, fr), << fr.r, fr.c >>,
                             Rest(pc, fr)[1])
      ]_vars

\* a search that has filled cells of its board by propagation runs for a
\* candidate of a level whose smaller candidate has failed, and that level's
\* p still has the selected cell empty
C22_Witness ==
    /\ pc \in { "fun", "imp" }
    /\ Len(Stack) >= 2
    /\ LET fr == Stack[Len(Stack) - 1]
           p == PBoard(pc, heap, fr)
           ch == Top(Stack)
       IN  /\ fr.pc = "wait"
           /\ p[fr.r][fr.c] = 0
           /\ \E v \in Legal(p, fr.r, fr.c) : v < Rest(pc, fr)[1]
           /\ GivenBoard(pc, heap, ch) = Edit(p, << fr.r, fr.c >>, Rest(pc, fr)[1])
           /\ ch.pc = "propagate"
           /\ PBoard(pc, heap, ch) # GivenBoard(pc, heap, ch)

\* ------------------------------------------------------------------------
\* Runs in which a call that has started goes on
\* ------------------------------------------------------------------------
\* a step of the solve that is running: the code is single-threaded and
\* synchronous, a call that has started runs until it returns
Run ==
    \/ fun_propagate_pass
    \/ fun_search_select
    \/ fun_try_all
    \/ fun_try_next
    \/ fun_return
    \/ imp_propagate_pass
    \/ imp_search_select
    \/ imp_try_candidate
    \/ imp_try_next
    \/ imp_return

\* Weak fairness of Run: a run either is between two calls again and again,
\* or takes steps of Run again and again.  This is WF_vars(Run) with
\* ENABLED << Run >>_vars written out as pc # "idle": a call that runs has a
\* next step, which changes stats, a stack or pc, until it has returned.
FairSpec == Spec /\ ([]<>(pc = "idle") \/ []<><< Run >>_vars)

\* C23 (Bounded recursion): every recursive call of search receives a board
\* with strictly more non-zero cells than the board its caller received,
\* the nesting depth of search never exceeds 81, and every solve call that
\* has started returns.
C23_BoundedRecursion ==
    /\ [][ (pc # "idle" /\ pc' = pc /\ Len(Stack') = Len(Stack) + 1) =>
             Filled(GivenBoard(pc, heap', Top(Stack'))) >
                 Filled(GivenBoard(pc, heap, Top(Stack)))
         ]_vars
    /\ [](Len(fstack) <= N * N /\ Len(istack) <= N * N)
    /\ (pc # "idle") ~> (pc = "idle")

\* search is nested four deep, and each level was given more non-zero
\* cells than the level that called it
C23_Witness ==
    /\ pc \in { "fun", "imp" }
    /\ Len(Stack) >= 4
    /\ \A k \in 2 .. Len(Stack) :
           Filled(GivenBoard(pc, heap, Stack[k])) >
               Filled(GivenBoard(pc, heap, Stack[k - 1]))

\* b is a board: 9 rows of 9 cells
IsBoard(b) == DOMAIN b = Idx /\ \A r \in Idx : DOMAIN b[r] = Idx

\* C24 (Negative results are values): for a 9x9 board with cells in 0..9,
\* solve ends by returning None or a board and raises nothing; what a
\* search or its propagate handed back last is None or a board; and what
\* choose_mrv_cell handed to a level that goes on is a cell of the board
\* with a list of candidates.
C24_NegativeResultsAreValues ==
    /\ \A k \in DOMAIN hist :
           InRange(hist[k].arg) =>
               /\ ~ hist[k].raised
               /\ IsNone(hist[k].out) \/ IsBoard(Val(hist[k].out))
    /\ (pc # "idle" /\ InRange(arg.board)) =>
           /\ \/ IsNone(ret)
              \/ pc = "fun" /\ IsBoard(Val(ret))
              \/ pc = "imp" /\ Val(ret) \in DOMAIN heap /\ IsBoard(heap[Val(ret)])
           /\ \A k \in DOMAIN Stack :
                  /\ IsBoard(PBoard(pc, heap, Stack[k]))
                  /\ Stack[k].pc \in { "try", "wait" } =>
                         /\ Stack[k].r \in Idx
                         /\ Stack[k].c \in Idx
                         /\ Range(Rest(pc, Stack[k])) \subseteq 1 .. N

\* a level whose candidates have all failed is about to return None, on a
\* board with cells in 0..9: its list is exhausted and the search of its last
\* candidate came back with None
C24_Witness ==
    /\ pc \in { "fun", "imp" }
    /\ InRange(arg.board)
    /\ Len(Stack) >= 2
    /\ Top(Stack).pc = "try"
    /\ Rest(pc, Top(Stack)) = << >>
    /\ IsNone(ret)
    /\ Legal(PBoard(pc, heap, Top(Stack)), Top(Stack).r, Top(Stack).c) # {}

\* whether propagate of the implementation that ran the call returns None
\* for the board b
propagate_none_by(impl, b) ==
    IF impl = "fun" THEN IsNone(fun_propagate(to_immutable(b)))
    ELSE IsNone(imp_propagate(copy_board(b)))

\* C25 as the specification states it: for every board passed to a solve,
\* has_conflict is true exactly when propagate of that board returns None.
C25_ConflictIffPropagateNone ==
    pc = "idle" =>
        /\ fun_has_conflict(to_immutable(arg.board)) =
               IsNone(fun_propagate(to_immutable(arg.board)))
        /\ imp_has_conflict(arg.board) = IsNone(imp_propagate(copy_board(arg.board)))

\* C25 (Conflict check and zero-candidate detection), as the code has it:
\* the two are separate reasons for None.  A call on a board of which
\* has_conflict is true returns None without a search; a call on a board of
\* which has_conflict is false and whose propagate returns None returns None
\* from its first search, after the passes of that one propagate and without
\* a selection; and either way the call returns None.  Each call is looked
\* at when it has returned.
C25_ConflictOrDeadCellGivesNone ==
    (pc = "idle" /\ hist # << >>) =>
        LET h == hist[Len(hist)]
            hc == has_conflict_by(h.impl, h.arg)
            pn == propagate_none_by(h.impl, h.arg)
        IN  /\ (hc \/ pn) => IsNone(h.out)
            /\ hc => h.stats = NoStats
            /\ (~ hc /\ pn) =>
                   /\ h.stats.searches = 1
                   /\ h.stats.passes >= 1
                   /\ h.stats.selects = 0
                   /\ h.stats.branches = 0

\* a call on a board with cells in 0..9 of which has_conflict is false has
\* returned None because propagate of the board found a cell without
\* candidates
C25_Witness ==
    \E k \in DOMAIN hist :
        /\ InRange(hist[k].arg)
        /\ ~ has_conflict_by(hist[k].impl, hist[k].arg)
        /\ ~ Duplicate(hist[k].arg)
        /\ propagate_none_by(hist[k].impl, hist[k].arg)
        /\ IsNone(hist[k].out)
        /\ hist[k].stats.passes >= 1

\* C26 (Board shape and range): while a solve runs that was given a 9x9
\* board with cells in 0..9, the board every level was given and the board
\* every level propagates on are 9x9 with cells in 0..9, every value the
\* last step wrote is in 1..9 and went into a cell of the board; and the
\* board such a solve returned is 9x9 with cells in 0..9.
C26_ShapeAndRange ==
    /\ (pc # "idle" /\ IsBoard(arg.board) /\ InRange(arg.board)) =>
           /\ \A k \in DOMAIN Stack :
                  /\ IsBoard(GivenBoard(pc, heap, Stack[k]))
                  /\ InRange(GivenBoard(pc, heap, Stack[k]))
                  /\ IsBoard(PBoard(pc, heap, Stack[k]))
                  /\ InRange(PBoard(pc, heap, Stack[k]))
           /\ \A i \in DOMAIN lastw :
                  /\ lastw[i][1] \in Idx
                  /\ lastw[i][2] \in Idx
                  /\ lastw[i][4] \in 1 .. N
           /\ ~ IsNone(ret) =>
                  LET res == IF pc = "imp" THEN heap[Val(ret)] ELSE Val(ret)
                  IN  IsBoard(res) /\ InRange(res)
    /\ \A k \in DOMAIN hist :
           (IsBoard(hist[k].arg) /\ InRange(hist[k].arg)
                /\ ~ IsNone(hist[k].out)) =>
               IsBoard(Val(hist[k].out)) /\ InRange(Val(hist[k].out))

\* a search for a branch board has just committed several singletons to its
\* board, in a solve that was given a board with cells in 0..9
C26_Witness ==
    /\ pc \in { "fun", "imp" }
    /\ InRange(arg.board)
    /\ Len(Stack) >= 2
    /\ Top(Stack).pc = "propagate"
    /\ Len(lastw) >= 2
    /\ \A i \in DOMAIN lastw :
           PBoard(pc, heap, Top(Stack))[lastw[i][1]][lastw[i][2]] = lastw[i][4]
    /\ PBoard(pc, heap, Top(Stack)) # GivenBoard(pc, heap, Top(Stack))

\* the calls that have returned after they had reached search
ReachedSearch == { k \in DOMAIN hist : hist[k].stats.searches >= 1 }

\* C27 (Solver factory counter): the counter of a solver made by
\* create_backtracking_solver(max_depth) is 0 before the first call, goes up
\* by one when a call reaches search, and is changed by nothing else, so it
\* is the number of calls that have reached search; max_depth stays as
\* given.  With max_depth = n the first n calls reach search and return what
\* search returned (the same for the same board), and every later call
\* returns None without a search, whatever the board; with max_depth None
\* every call reaches search.
C27_FactoryCounter ==
    /\ [][ /\ max_depth' = max_depth
           /\ depth_counter' =
                  IF pc = "idle" /\ pc' # "idle" THEN depth_counter + 1
                  ELSE depth_counter
         ]_vars
    /\ [](/\ depth_counter =
                 Cardinality(ReachedSearch) + (IF pc = "idle" THEN 0 ELSE 1)
          /\ \A k \in DOMAIN hist :
                 IF IsNone(max_depth) \/ k <= Val(max_depth)
                 THEN /\ k \in ReachedSearch
                      /\ \A j \in DOMAIN hist :
                             (j \in ReachedSearch /\ hist[j].arg = hist[k].arg)
                                 => hist[j].out = hist[k].out
                 ELSE /\ IsNone(hist[k].out)
                      /\ hist[k].stats = NoStats)

\* a solver made with max_depth = 1 has solved a board with its first call
\* and has returned None for the same board with its second
C27_Witness ==
    /\ max_depth = Some(1)
    /\ depth_counter = 1
    /\ Len(hist) = 2
    /\ ~ IsNone(hist[1].out)
    /\ ValidSolution(Val(hist[1].out))
    /\ hist[2].arg = hist[1].arg
    /\ IsNone(hist[2].out)

\* nb is b with cell (r, c) set to val and the other 80 cells as in b
OnlyCellSet(nb, b, r, c, val) ==
    /\ IsBoard(nb)
    /\ nb[r][c] = val
    /\ \A r2 \in Idx : \A c2 \in Idx :
           << r2, c2 >> # << r, c >> => nb[r2][c2] = b[r2][c2]

\* C28 (Functional set_cell): set_cell(board, r, c, val) of the functional
\* solver returns a board whose cell (r, c) is val and whose other 80 cells
\* are those of board, for the board passed last and every cell and value
\* the caller edits; and when search calls it for a branch, the board the
\* branch gets is such a board and the board p that was passed to set_cell
\* is afterwards what it was.
C28_FunctionalSetCellPure ==
    /\ [](pc = "idle" =>
            \A rc \in EditCells : \A val \in 0 .. N :
                OnlyCellSet(fun_set_cell(to_immutable(arg.board), rc[1], rc[2], val),
                            arg.board, rc[1], rc[2], val))
    /\ [][ (pc = "fun" /\ pc' = "fun" /\ Len(fstack') = Len(fstack) + 1) =>
             LET fr == Top(fstack)
             IN  /\ Top(fstack').board =
                        fun_set_cell(fr.p, fr.r, fr.c, Head(fr.items))
                 /\ OnlyCellSet(Top(fstack').board, fr.p, fr.r, fr.c,
                                Head(fr.items))
                 /\ fstack'[Len(fstack)].p = fr.p
                 /\ fstack'[Len(fstack)].board = fr.board
         ]_vars

\* a functional search runs on the board set_cell made for a candidate: the
\* board p of the level that called it still has the cell empty
C28_Witness ==
    /\ pc = "fun"
    /\ Len(fstack) >= 2
    /\ LET fr == fstack[Len(fstack) - 1]
       IN  /\ fr.pc = "wait"
           /\ fr.p[fr.r][fr.c] = 0
           /\ Top(fstack).board[fr.r][fr.c] = Head(fr.items)
           /\ Top(fstack).board = fun_set_cell(fr.p, fr.r, fr.c, Head(fr.items))
           /\ Top(fstack).board # fr.p

====
